---- MODULE Spec2Model ----
(***************************************************************************)
(* Moon, src/util/util.js: the virtual DOM helpers.  `h` builds VNodes,    *)
(* `createNodeFromVNode` turns a VNode into a DOM node, `diffProps` and    *)
(* `diff` patch a live DOM tree so that it follows a VNode tree.           *)
(*                                                                         *)
(* JavaScript values are modelled as follows.  A string is a TLA+ string.  *)
(* An object used as a mapping (props, attributes, eventListeners) is a    *)
(* function whose DOMAIN is the object's key set.  A VNode and a DOM node  *)
(* are records.  An array is a sequence.  A missing object is Undefined, a *)
(* missing string is undefined.  The functions of util.js mutate the DOM   *)
(* in place; here each returns the DOM node it mutated together with the   *)
(* host calls it made, in order.                                           *)
(***************************************************************************)
EXTENDS Integers, Sequences, FiniteSets, TLC

VARIABLES parent,   \* the live DOM element the top-level diff works under
          before,   \* parent as it was when the last call started
          vnode,    \* the VNode of the last call (Undefined when there is none)
          node,     \* index in before.childNodes of the last call's node, 0 for undefined
          args,     \* the child arguments of the last call of h
          fn,       \* the function of util.js that ran last
          ops,      \* the host calls the last call made, in order
          events,   \* self.$events: the handlers of the instance's dispatcher
          passes    \* number of calls made so far

vars == <<parent, before, vnode, node, args, fn, ops, events, passes>>

(* ------------------------------ bounds --------------------------------- *)

MaxPasses == 2      \* calls per behaviour
MaxLive == 2        \* children of the top-level parent
MaxArgs == 2        \* child arguments of one h call, where h alone is exercised

(* --------------------------- JavaScript values ------------------------- *)

Undefined == [undefined |-> TRUE]          \* undefined, where an object is expected
undefined == "\\undefined"                 \* undefined, where a string is expected
EmptyObject == [k \in {} |-> ""]           \* {}

\* obj[key]
Get(obj, key) == IF key \in DOMAIN obj THEN obj[key] ELSE undefined

\* !x for a string or undefined
Falsy(x) == x = undefined \/ x = ""

\* the keys a for-in loop visits; a for-in over undefined visits nothing
Keys(obj) == IF obj = Undefined THEN {} ELSE DOMAIN obj

\* a fixed enumeration order for the keys of the objects of the model
KeyOrder == <<"id", "class", "m-show", "m-for", "click", "mounted">>

IsIn(S) == [k \in {"id", "class", "m-show", "m-for", "click", "mounted"} |-> k \in S]

ForIn(S) == LET member == IsIn(S) IN SelectSeq(KeyOrder, LAMBDA k : member[k])

\* String.prototype.toLowerCase and toUpperCase on the names of the model
ToLowerCase(s) ==
  CASE s = "DIV" -> "div"
    [] s = "P" -> "p"
    [] s = "BODY" -> "body"
    [] OTHER -> s

ToUpperCase(s) ==
  CASE s = "div" -> "DIV"
    [] s = "p" -> "P"
    [] s = "body" -> "BODY"
    [] OTHER -> s

\* ToString of a plain object, as Array.prototype.join applies it
ObjectToString(obj) == "[object Object]"

RECURSIVE join(_)
join(array) ==
  IF array = <<>> THEN "" ELSE ObjectToString(Head(array)) \o join(Tail(array))

RECURSIVE Flatten(_)
Flatten(seqs) == IF seqs = <<>> THEN <<>> ELSE Head(seqs) \o Flatten(Tail(seqs))

(* ------------------------------ VNodes --------------------------------- *)

defaultMetadata == [shouldRender |-> TRUE, eventListeners |-> EmptyObject]

createElement(type, val, props, children, meta) ==
  [type |-> type,
   val |-> val,
   props |-> props,
   children |-> children,
   meta |-> IF meta = Undefined THEN defaultMetadata ELSE meta]

\* an argument of h after tag, attrs and meta: a string, null, an array of
\* VNodes or a VNode
Str(s) == [kind |-> "string", str |-> s]
Null == [kind |-> "null"]
Arr(items) == [kind |-> "array", items |-> items]
Obj(v) == [kind |-> "object", obj |-> v]

RECURSIVE hChildren(_, _, _)
hChildren(rest, meta, children) ==
  IF rest = <<>> THEN children
  ELSE LET arg == Head(rest) IN
       hChildren(Tail(rest), meta,
         IF arg.kind = "array" THEN children \o arg.items
         ELSE IF arg.kind = "string" \/ arg.kind = "null"
           THEN Append(children,
                  createElement("#text",
                                IF arg.kind = "string" /\ arg.str # "" THEN arg.str ELSE "",
                                EmptyObject, <<>>, meta))
           ELSE Append(children, arg.obj))

h(tag, attrsArg, meta, rest) ==
  LET attrs == IF attrsArg = Undefined THEN EmptyObject ELSE attrsArg
      children == hChildren(rest, meta, <<>>)
  IN createElement(tag, join(children), attrs, children, meta)

(* ------------------------------ the DOM -------------------------------- *)

\* self.$events: the event types the instance dispatches itself
InternalEvents == {"mounted"}

\* document.createTextNode
createTextNode(data) ==
  [nodeName |-> "#text", textContent |-> data, childNodes |-> <<>>]

\* document.createElement in an HTML document: nodeName is the upper-cased tag
document_createElement(tag) ==
  [nodeName |-> ToUpperCase(tag),
   attributes |-> EmptyObject,
   childNodes |-> <<>>,
   listeners |-> <<>>]

appendChild(p, child) == [p EXCEPT !.childNodes = Append(@, child)]

removeChild(p, i) ==
  [p EXCEPT !.childNodes = SubSeq(@, 1, i - 1) \o SubSeq(@, i + 1, Len(@))]

replaceChild(p, new, i) == [p EXCEPT !.childNodes[i] = new]

setAttribute(el, name, value) ==
  [el EXCEPT !.attributes =
     [k \in DOMAIN @ \cup {name} |-> IF k = name THEN value ELSE @[k]]]

removeAttribute(el, name) ==
  [el EXCEPT !.attributes = [k \in DOMAIN @ \ {name} |-> @[k]]]

extractAttrs(n) ==
  IF "attributes" \notin DOMAIN n THEN EmptyObject ELSE n.attributes

\* one host call, as recorded in ops; depth 0 is the call's own parent
Op(name, fields) == [op |-> name, depth |-> 0] @@ fields

Nest(log) == [j \in DOMAIN log |-> [log[j] EXCEPT !.depth = @ + 1]]

(* ------------------------- addEventListeners --------------------------- *)

RECURSIVE addMethods(_, _, _, _)
addMethods(el, type, methods, log) ==
  IF methods = <<>> THEN [node |-> el, ops |-> log]
  ELSE LET method == Head(methods) IN
       IF type \in InternalEvents
       THEN addMethods(el, type, Tail(methods),
                       Append(log, Op("on", [type |-> type, method |-> method])))
       ELSE addMethods([el EXCEPT !.listeners = Append(@, <<type, method>>)],
                       type, Tail(methods),
                       Append(log, Op("addEventListener", [type |-> type, method |-> method])))

RECURSIVE addTypes(_, _, _, _)
addTypes(el, eventListeners, types, log) ==
  IF types = <<>> THEN [node |-> el, ops |-> log]
  ELSE LET r == addMethods(el, Head(types), eventListeners[Head(types)], log)
       IN addTypes(r.node, eventListeners, Tail(types), r.ops)

addEventListeners(el, eventListeners) ==
  addTypes(el, eventListeners, ForIn(Keys(eventListeners)), <<>>)

(* ------------------------ createNodeFromVNode -------------------------- *)

RECURSIVE createNodeFromVNode(_)
createNodeFromVNode(v) ==
  IF v.type = "#text"
  THEN [node |-> createTextNode(v.val), ops |-> <<>>]
  ELSE LET el == document_createElement(v.type)
           children == [i \in 1..Len(v.children) |-> createNodeFromVNode(v.children[i])]
           filled == [el EXCEPT !.childNodes = [i \in 1..Len(children) |-> children[i].node]]
           \* addEventListeners(el): the eventListeners parameter is not passed
           added == addEventListeners(filled, Undefined)
       IN [node |-> added.node,
           ops |-> Flatten([i \in 1..Len(children) |-> children[i].ops]) \o added.ops]

(* ------------------------------ diffProps ------------------------------ *)

\* the registries of directives, by attribute name
directives == {"m-show"}
specialDirectives == {"m-for"}

\* merge in which the first object wins
mergeFirstWins(obj, obj2) ==
  [key \in DOMAIN obj \cup DOMAIN obj2 |->
     IF key \in DOMAIN obj THEN obj[key] ELSE obj2[key]]

merge(obj, obj2) ==
  [key \in DOMAIN obj \cup DOMAIN obj2 |->
     IF key \in DOMAIN obj2 THEN obj2[key] ELSE obj[key]]

\* the body of the for-in loop of diffProps for one propName
diffProp(el, nodeProps, vnodeProps, v, allProps, propName) ==
  IF Falsy(Get(vnodeProps, propName)) \/ propName \in directives
                                      \/ propName \in specialDirectives
  THEN [node |-> removeAttribute(el, propName),
        ops |-> (IF propName \in directives
                 THEN <<Op("directive", [name |-> propName, node |-> el,
                                         value |-> allProps[propName], vnode |-> v])>>
                 ELSE <<>>)
                \o <<Op("removeAttribute", [name |-> propName])>>]
  ELSE IF Falsy(Get(nodeProps, propName)) \/ nodeProps[propName] # vnodeProps[propName]
  THEN [node |-> setAttribute(el, propName, vnodeProps[propName]),
        ops |-> <<Op("setAttribute", [name |-> propName, value |-> vnodeProps[propName]])>>]
  ELSE [node |-> el, ops |-> <<>>]

RECURSIVE diffPropsLoop(_, _, _, _, _, _, _)
diffPropsLoop(el, nodeProps, vnodeProps, v, allProps, names, log) ==
  IF names = <<>> THEN [node |-> el, ops |-> log]
  ELSE LET r == diffProp(el, nodeProps, vnodeProps, v, allProps, Head(names))
       IN diffPropsLoop(r.node, nodeProps, vnodeProps, v, allProps, Tail(names), log \o r.ops)

diffProps(el, nodeProps, vnodeProps, v) ==
  LET allProps == merge(nodeProps, vnodeProps)
  IN diffPropsLoop(el, nodeProps, vnodeProps, v, allProps, ForIn(DOMAIN allProps), <<>>)

(* -------------------------------- diff --------------------------------- *)

\* the gate without the test of shouldRender
shouldDiffAlways(v) == TRUE

\* the gate with the flag negated
shouldDiffNegated(v) ==
  IF v # Undefined /\ v.meta # Undefined THEN ~v.meta.shouldRender ELSE TRUE

\* vnode && vnode.meta ? vnode.meta.shouldRender : true
shouldDiff(v) ==
  IF v # Undefined /\ v.meta # Undefined THEN v.meta.shouldRender ELSE TRUE

RECURSIVE diff(_, _, _)
RECURSIVE diffChildren(_, _, _, _)

\* diff(p.childNodes[n], v, p); n = 0 stands for an undefined node.
\* The result is p after the call and the host calls made.
diff(p, n, v) ==
  LET nodeName == IF n # 0 THEN ToLowerCase(p.childNodes[n].nodeName) ELSE undefined IN
  IF ~shouldDiff(v) THEN [parent |-> p, ops |-> <<>>]
  ELSE IF n = 0 THEN
    LET new == createNodeFromVNode(v)
    IN [parent |-> appendChild(p, new.node),
        ops |-> new.ops \o <<Op("appendChild", [node |-> new.node])>>]
  ELSE IF v = Undefined THEN
    [parent |-> removeChild(p, n), ops |-> <<Op("removeChild", [index |-> n])>>]
  ELSE IF nodeName # v.type THEN
    LET new == createNodeFromVNode(v)
    IN [parent |-> replaceChild(p, new.node, n),
        ops |-> new.ops \o <<Op("replaceChild", [node |-> new.node, index |-> n])>>]
  ELSE IF nodeName = "#text" /\ v.type = "#text" THEN
    [parent |-> [p EXCEPT !.childNodes[n].textContent = v.val],
     ops |-> <<Op("textContent", [index |-> n, value |-> v.val])>>]
  ELSE IF v.type # "" THEN
    LET el == p.childNodes[n]
        patched == diffProps(el, extractAttrs(el), v.props, v)
        done == diffChildren(patched.node, v, 0, <<>>)
    IN [parent |-> [p EXCEPT !.childNodes[n] = done.node],
        ops |-> Nest(patched.ops \o done.ops)]
  ELSE [parent |-> p, ops |-> <<>>]

\* the loop over the children, from index i on; el.childNodes is live
diffChildren(el, v, i, log) ==
  IF i < Len(v.children) \/ i < Len(el.childNodes)
  THEN LET r == diff(el,
                     IF i < Len(el.childNodes) THEN i + 1 ELSE 0,
                     IF i < Len(v.children) THEN v.children[i + 1] ELSE Undefined)
       IN diffChildren(r.parent, v, i + 1, log \o r.ops)
  ELSE [node |-> el, ops |-> log]

(* ------------------------------- inputs -------------------------------- *)

SeqsUpTo(S, n) == UNION {[1..k -> S] : k \in 0..n}

Tags == {"div", "DIV", "p"}

NoRender == [shouldRender |-> FALSE, eventListeners |-> EmptyObject]
OnClick == [shouldRender |-> TRUE, eventListeners |-> [t \in {"click"} |-> <<"onClick">>]]
OnMounted == [shouldRender |-> TRUE, eventListeners |-> [t \in {"mounted"} |-> <<"onMounted">>]]

\* the meta argument of h
Metas == {Undefined, NoRender, OnClick}

\* the attrs argument of h for the trees that are diffed
TreeProps == {EmptyObject, [k \in {"id"} |-> "a"]}

\* a child element of the trees that are diffed
PKid == h("p", [k \in {"id"} |-> "b"], OnMounted, <<>>)

\* the child arguments of h for the trees that are diffed
KidLists == {<<>>, <<Str("a")>>, <<Obj(PKid)>>, <<Obj(PKid), Str("a")>>}

\* the VNode trees a render pass hands to diff
VNodes ==
  {h(tag, attrs, meta, rest) :
     tag \in Tags, attrs \in TreeProps, meta \in Metas, rest \in KidLists}
  \cup {createElement("#text", "b", EmptyObject, <<>>, Undefined)}

\* the element Moon is mounted on, with the content the page gave it
Body(children) ==
  [nodeName |-> "BODY", attributes |-> EmptyObject, childNodes |-> children,
   listeners |-> <<>>]

PageDiv ==
  [nodeName |-> "DIV", attributes |-> [k \in {"id"} |-> "b"],
   childNodes |-> <<createTextNode("a"), createTextNode("b")>>, listeners |-> <<>>]

\* self.on(type, method) for every "on" call of a log
on(handlers, log) ==
  [t \in DOMAIN handlers |->
     handlers[t] \o
       LET mine == SelectSeq(log, LAMBDA e : e.op = "on" /\ e.type = t)
       IN [j \in DOMAIN mine |-> mine[j].method]]

(* ------------------------- the render passes --------------------------- *)

Init ==
  /\ parent \in {Body(<<>>), Body(<<PageDiv>>)}
  /\ before = parent
  /\ vnode = Undefined
  /\ node = 0
  /\ args = <<>>
  /\ fn = "none"
  /\ ops = <<>>
  /\ events = [t \in InternalEvents |-> <<>>]
  /\ passes = 0

\* diff(parent.childNodes[n], v, parent); n = 0 is diff(undefined, v, parent)
Reconcile(n, v) ==
  /\ passes < MaxPasses
  /\ n <= Len(parent.childNodes)
  /\ ~(n = 0 /\ v = Undefined)
  /\ n = 0 => Len(parent.childNodes) < MaxLive
  /\ LET r == diff(parent, n, v) IN
       /\ parent' = r.parent
       /\ ops' = r.ops
       /\ events' = on(events, r.ops)
  /\ before' = parent
  /\ vnode' = v
  /\ node' = n
  /\ fn' = "diff"
  /\ passes' = passes + 1
  /\ UNCHANGED args

Next == \E v \in VNodes \cup {Undefined} : \E n \in 0..MaxLive : Reconcile(n, v)

Spec == Init /\ [][Next]_vars

(* ------------------------ diffProps on its own ------------------------- *)

AttrNames == {"id", "m-show", "m-for"}
AttrValues == {"", "a", "b"}
AttrMaps == UNION {[S -> AttrValues] : S \in SUBSET AttrNames}

LiveDiv(attributes) ==
  [nodeName |-> "DIV", attributes |-> attributes, childNodes |-> <<>>, listeners |-> <<>>]

InitProps ==
  /\ parent \in {Body(<<LiveDiv(a)>>) : a \in AttrMaps}
  /\ before = parent
  /\ vnode = Undefined
  /\ node = 0
  /\ args = <<>>
  /\ fn = "none"
  /\ ops = <<>>
  /\ events = [t \in InternalEvents |-> <<>>]
  /\ passes = 0

\* diffProps(el, extractAttrs(el), v.props, v) on the element under parent
DiffProps(vnodeProps) ==
  /\ passes < MaxPasses
  /\ LET el == parent.childNodes[1]
         v == h("div", vnodeProps, Undefined, <<>>)
         r == diffProps(el, extractAttrs(el), v.props, v)
     IN /\ parent' = [parent EXCEPT !.childNodes[1] = r.node]
        /\ ops' = r.ops
        /\ vnode' = v
  /\ before' = parent
  /\ node' = 1
  /\ fn' = "diffProps"
  /\ passes' = passes + 1
  /\ UNCHANGED <<args, events>>

NextProps == \E vnodeProps \in AttrMaps : DiffProps(vnodeProps)

SpecProps == InitProps /\ [][NextProps]_vars

(* ---------------------------- h on its own ----------------------------- *)

HKid == h("p", Undefined, Undefined, <<Str("c")>>)
HLeaf == h("div", [k \in {"id"} |-> "a"], NoRender, <<>>)

HArgs == {Str("a"), Str("b"), Str(""), Null, Obj(HKid), Arr(<<HKid, HLeaf>>)}

InitH ==
  /\ parent = Body(<<>>)
  /\ before = parent
  /\ vnode = Undefined
  /\ node = 0
  /\ args = <<>>
  /\ fn = "none"
  /\ ops = <<>>
  /\ events = [t \in InternalEvents |-> <<>>]
  /\ passes = 0

Build(tag, attrs, meta, rest) ==
  /\ vnode' = h(tag, attrs, meta, rest)
  /\ args' = rest
  /\ fn' = "h"
  /\ UNCHANGED <<parent, before, node, ops, events, passes>>

NextH ==
  \E tag \in {"div", "p"}, attrs \in {Undefined, [k \in {"id"} |-> "a"]},
     meta \in {Undefined, NoRender}, rest \in SeqsUpTo(HArgs, MaxArgs) :
       Build(tag, attrs, meta, rest)

SpecH == InitH /\ [][NextH]_vars

(* ------------------------------ properties ----------------------------- *)

\* the last call was diff(node, vnode, parent) with both arguments present
DiffOfBoth == fn = "diff" /\ node # 0 /\ vnode # Undefined

\* the live node the last diff was given
liveNode == before.childNodes[node]

NodeOps == {"appendChild", "removeChild", "replaceChild"}

\* the last call replaced its node under its parent
Replaced == \E j \in DOMAIN ops : ops[j].op = "replaceChild" /\ ops[j].depth = 0

\* the last call appended a node to its parent
Appended == \E j \in DOMAIN ops : ops[j].op = "appendChild" /\ ops[j].depth = 0

RECURSIVE AllRender(_)
AllRender(v) ==
  v.meta.shouldRender /\ \A i \in DOMAIN v.children : AllRender(v.children[i])

RECURSIVE ConcatVals(_)
ConcatVals(children) ==
  IF children = <<>> THEN "" ELSE Head(children).val \o ConcatVals(Tail(children))

\* live carries the tag, text, attributes and children of v
RECURSIVE Realizes(_, _)
Realizes(live, v) ==
  IF v.type = "#text"
  THEN live.nodeName = "#text" /\ live.textContent = v.val
  ELSE /\ ToLowerCase(live.nodeName) = ToLowerCase(v.type)
       /\ extractAttrs(live) = v.props
       /\ Len(live.childNodes) = Len(v.children)
       /\ \A i \in DOMAIN v.children : Realizes(live.childNodes[i], v.children[i])

\* C1: diffing a freshly created tree against the VNode it was created from
\* adds, removes and replaces no node, for every VNode tree.
C1_Idempotent ==
  (DiffOfBoth /\ liveNode = createNodeFromVNode(vnode).node)
    => \A j \in DOMAIN ops : ops[j].op \notin NodeOps

\* C2: after diff of an element against a VNode of the same tag whose
\* descendants all render, the element has as many children as the VNode and
\* the child at each index has the tag of the VNode's child at that index.
C2_ChildrenFollow ==
  (/\ DiffOfBoth
   /\ vnode.type # "#text"
   /\ ToLowerCase(liveNode.nodeName) = vnode.type
   /\ AllRender(vnode))
    => LET el == parent.childNodes[node] IN
       /\ Len(el.childNodes) = Len(vnode.children)
       /\ \A i \in DOMAIN vnode.children :
            i \in DOMAIN el.childNodes
              /\ ToLowerCase(el.childNodes[i].nodeName) = ToLowerCase(vnode.children[i].type)

\* C3: diff against a VNode whose meta.shouldRender is false makes no host
\* call and leaves the parent and everything under it as it was, whether the
\* node is absent, of another tag or of other attributes.
C3_RenderGate ==
  (fn = "diff" /\ vnode # Undefined /\ ~vnode.meta.shouldRender)
    => parent = before /\ ops = <<>>

C3_Witness ==
  /\ DiffOfBoth
  /\ ~vnode.meta.shouldRender
  /\ vnode.type # "#text"
  /\ ToLowerCase(liveNode.nodeName) # vnode.type
  /\ extractAttrs(liveNode) # vnode.props
  /\ liveNode.childNodes # <<>>

\* C4, as claimed: diff(undefined, vnode, parent) appends exactly one node,
\* as the last child of parent, for every vnode whatever its meta.
C4_AlwaysAppends ==
  (fn = "diff" /\ node = 0)
    => /\ Len(parent.childNodes) = Len(before.childNodes) + 1
       /\ SubSeq(parent.childNodes, 1, Len(before.childNodes)) = before.childNodes

\* C4, amended: diff(undefined, vnode, parent) with vnode.meta.shouldRender
\* true appends exactly one node, of vnode's type, as the last child of parent
\* and changes nothing else under parent.
C4_AppendsWhenRendered ==
  (fn = "diff" /\ node = 0 /\ vnode.meta.shouldRender)
    => /\ Len(parent.childNodes) = Len(before.childNodes) + 1
       /\ SubSeq(parent.childNodes, 1, Len(before.childNodes)) = before.childNodes
       /\ parent.childNodes[Len(parent.childNodes)].nodeName
            = (IF vnode.type = "#text" THEN "#text" ELSE ToUpperCase(vnode.type))
       /\ Cardinality({j \in DOMAIN ops : ops[j].op \in NodeOps}) = 1
       /\ [parent EXCEPT !.childNodes = before.childNodes] = before

C4_Witness ==
  /\ fn = "diff" /\ node = 0 /\ vnode.meta.shouldRender
  /\ before.childNodes # <<>>
  /\ vnode.children # <<>>
  /\ Appended

\* C5: with no directive and no special directive among the keys, diffProps
\* leaves the element with exactly the desired attributes, for every value
\* including the empty string; an attribute that already has the desired
\* value is neither set nor removed.
C5_AttributesFollow ==
  LET current == extractAttrs(before.childNodes[1])
      desired == vnode.props
  IN (/\ fn = "diffProps"
      /\ (DOMAIN current \cup DOMAIN desired) \cap (directives \cup specialDirectives) = {})
       => /\ parent.childNodes[1].attributes = desired
          /\ \A k \in DOMAIN current \cap DOMAIN desired :
               current[k] = desired[k] => \A j \in DOMAIN ops : ops[j].name # k

\* C6: creating an element from a VNode registers every handler of
\* meta.eventListeners exactly once, on the dispatcher for an internal event
\* and on the element otherwise.
C6_RegisteredOnce ==
  (fn = "diff" /\ node = 0 /\ vnode.meta.shouldRender /\ vnode.type # "#text")
    => LET el == parent.childNodes[Len(parent.childNodes)]
           listeners == vnode.meta.eventListeners
       IN \A type \in DOMAIN listeners : \A i \in DOMAIN listeners[type] :
            IF type \in InternalEvents
            THEN Cardinality({j \in DOMAIN ops :
                   /\ ops[j].op = "on" /\ ops[j].type = type
                   /\ ops[j].method = listeners[type][i]}) = 1
            ELSE Cardinality({j \in DOMAIN el.listeners :
                   el.listeners[j] = <<type, listeners[type][i]>>}) = 1

\* C7: the val of the VNode h returns is the concatenation, in order, of the
\* val of its children.
C7_ValIsConcatenation ==
  fn = "h" => vnode.val = ConcatVals(vnode.children)

\* the calls of the hook of directive k in the last call
HookCalls(k) == SelectSeq(ops, LAMBDA e : e.op = "directive" /\ e.name = k)

\* directive k ran once, on the element that still had its attribute k, with
\* the given value and the VNode, and the attribute was removed afterwards
HookedThenRemoved(k, value) ==
  LET current == extractAttrs(before.childNodes[1]) IN
  /\ Len(HookCalls(k)) = 1
  /\ HookCalls(k)[1].value = value
  /\ HookCalls(k)[1].vnode = vnode
  /\ HookCalls(k)[1].node.nodeName = before.childNodes[1].nodeName
  /\ Get(HookCalls(k)[1].node.attributes, k) = Get(current, k)
  /\ \E i, j \in DOMAIN ops :
       /\ i < j
       /\ ops[i].op = "directive" /\ ops[i].name = k
       /\ ops[j].op = "removeAttribute" /\ ops[j].name = k
  /\ k \notin DOMAIN parent.childNodes[1].attributes

RemovedUnhooked(k) ==
  /\ HookCalls(k) = <<>>
  /\ \E j \in DOMAIN ops : ops[j].op = "removeAttribute" /\ ops[j].name = k
  /\ k \notin DOMAIN parent.childNodes[1].attributes

\* C8, as claimed: for every key of merge(current, desired) that is a
\* directive, the hook runs once, before the attribute is removed, with the
\* element, the value the attribute has on the element and the VNode; a key
\* that is only a special directive is removed and no hook runs.
C8_HookGetsCurrentValue ==
  LET current == extractAttrs(before.childNodes[1])
      desired == vnode.props
  IN fn = "diffProps" =>
       \A k \in DOMAIN current \cup DOMAIN desired :
         /\ k \in directives => HookedThenRemoved(k, Get(current, k))
         /\ k \in specialDirectives \ directives => RemovedUnhooked(k)

\* C8, amended: as claimed, but the value handed to the hook is the desired
\* value when the key is in desired and the element's value only otherwise.
C8_HookGetsMergedValue ==
  LET current == extractAttrs(before.childNodes[1])
      desired == vnode.props
  IN fn = "diffProps" =>
       \A k \in DOMAIN current \cup DOMAIN desired :
         /\ k \in directives =>
              HookedThenRemoved(k, IF k \in DOMAIN desired THEN desired[k] ELSE current[k])
         /\ k \in specialDirectives \ directives => RemovedUnhooked(k)

C8_Witness ==
  LET current == extractAttrs(before.childNodes[1])
      desired == vnode.props
  IN /\ fn = "diffProps"
     /\ "m-show" \in DOMAIN current /\ "m-show" \in DOMAIN desired
     /\ current["m-show"] # desired["m-show"]
     /\ "m-for" \in DOMAIN desired
     /\ Len(HookCalls("m-show")) = 1

\* C9: with both arguments present and shouldRender true, diff replaces the
\* node exactly when its tag and the VNode's type differ regardless of letter
\* case.
C9_ReplacedIffTagsDiffer ==
  (DiffOfBoth /\ vnode.meta.shouldRender)
    => (Replaced <=> ToLowerCase(liveNode.nodeName) # ToLowerCase(vnode.type))

\* C10: the node diff appends or puts in place of another carries, with all
\* its descendants, the tags, text, children and attributes of the VNode.
C10_InsertedRealizesVNode ==
  /\ (fn = "diff" /\ node = 0 /\ Appended)
       => Realizes(parent.childNodes[Len(parent.childNodes)], vnode)
  /\ (DiffOfBoth /\ Replaced) => Realizes(parent.childNodes[node], vnode)

====
